---- MODULE Spec2Model ----
(***************************************************************************)
(* Model of the studyMomentum prediction write path: apply_plan and        *)
(* quiz_update (app/predict/routes.py), virtual task retirement            *)
(* (app/services/retirement.py) and the read-only plan / status            *)
(* endpoints, over the mastery mathematics of app/services/predict.py.     *)
(*                                                                         *)
(* Fixed point: mastery is held in hundredths (0.37 is 37), hours and the  *)
(* efficiencies eta / rho in hundredths (1.5 h is 150, 0.8 is 80),         *)
(* weights in thousandths, dates as day numbers.  An optional column is    *)
(* the empty tuple when NULL and a one-element tuple otherwise.            *)
(***************************************************************************)
EXTENDS Integers, Sequences, FiniteSets, TLC

\* ---------------------------------------------------------------- bounds
MaxDay == 1
MaxClock == 450

\* ------------------------------------------------------ program constants
ETA_APPLY == 80
RHO_APPLY == 35
T_EST_FALLBACK == 1000
LAMBDA_FALLBACK == 4
DELTA_DECAY_DEFAULT == 70
MAX_STAGE == 4
MIN_REAL_TASKS == 3
COVERAGE_PCT == 95
MAINS_FLOOR_PCT == 80
MASTERED_PCT == 80
NEW_MASTERY_CAP == 90
REV_MASTERY_FLOOR == 30
REV_MIN_DAYS == 3
DEFAULT_QUESTIONS == 20
CACHE_TTL_SECONDS == 300
T_EST_DEFAULT == 400
ETA_LEARN_DEFAULT == 80
RHO_REVISE_DEFAULT == 35
DAILY_HOURS_DEFAULT == 600
SPLIT_NEW_DEFAULT == 60
TOP_NEW == 10
TOP_REVISION == 8

\* ----------------------------------------------------------------- helpers
None == <<>>
Some(v) == <<v>>
IsNone(o) == o = <<>>
Val(o) == o[1]
\* Python "x or d" on an optional number: NULL and 0 both give d
OrElse(o, d) == IF o = <<>> THEN d ELSE IF o[1] = 0 THEN d ELSE o[1]

Min(a, b) == IF a < b THEN a ELSE b
Max(a, b) == IF a > b THEN a ELSE b
Clamp01(m) == Max(0, Min(100, m))

\* floor(a / b) for b # 0, either sign
FloorDiv(a, b) == IF b > 0 THEN a \div b ELSE (0 - a) \div (0 - b)
\* int(a / b): truncation toward zero, b > 0
TruncDiv(a, b) == IF a >= 0 THEN a \div b ELSE 0 - ((0 - a) \div b)

\* ------------------------------------------------- services/predict.py
\* variant: a date that was never set counts as long ago
days_since_never_is_long_ago(last, t) == IF IsNone(last) THEN 30 ELSE Max(0, t - Val(last))
\* days_since(last_date, today)
days_since(last, t) == IF IsNone(last) THEN 0 ELSE Max(0, t - Val(last))

\* exp(-lambda) in thousandths for the decay rates the program uses
\* (0.04: task default and apply_plan fallback; 0.7: Goal.delta_decay default)
ExpNeg(lam) == IF lam = 4 THEN 961 ELSE IF lam = 70 THEN 497 ELSE 1000 - 10 * lam

RECURSIVE DecayFactor(_, _)
DecayFactor(lam, days) ==
    IF days <= 0 THEN 1000 ELSE (DecayFactor(lam, days - 1) * ExpNeg(lam)) \div 1000

\* apply_decay(mastery, lambda_forgetting, days)
apply_decay(m, lam, days) ==
    IF days <= 0 THEN m ELSE Clamp01(FloorDiv(m * DecayFactor(lam, days), 1000))

\* learn_update(current_mastery, hours_spent, t_est_hours, eta_learn)
learn_update(m, hours, test, eta) ==
    LET t == IF test <= 0 THEN 100 ELSE test
        gap == 100 - m
        gain == FloorDiv(eta * hours * gap, t * 100)
    IN  Clamp01(m + gain)

\* revise_update(current_mastery, hours_spent, t_est_hours, rho_revise)
revise_update(m, hours, test, rho) ==
    LET t == IF test <= 0 THEN 100 ELSE test
        gap == 100 - m
        gain == FloorDiv(rho * hours * gap, t * 100)
    IN  Clamp01(m + gain)

\* bayes_init(initial_mastery): (alpha, beta) in hundredths
bayes_init(m) ==
    LET mean == Max(1, Min(99, m))
        temp == (mean * (100 - mean)) \div 10 - 100
        alpha == FloorDiv(mean * temp, 100)
        beta == FloorDiv((100 - mean) * temp, 100)
    IN  <<Max(100, alpha), Max(100, beta)>>

\* quiz_update(alpha, beta, correct, total): alpha, beta in hundredths
quiz_update_fn(alpha, beta, correct, total) ==
    <<alpha + 100 * correct, beta + 100 * (total - correct)>>

\* mastery_from_beta(alpha, beta), alpha + beta # 0
mastery_from_beta(alpha, beta) == FloorDiv(100 * alpha, alpha + beta)

\* ------------------------------------------------------------- topology
Users == {1, 10}
Goals == {1, 2, 3}
Subjects == {1, 2, 3, 4}
Topics == {1, 2, 3, 4}
Keys == {"k1", "k2"}
Procs == {1, 2}

\* Goal.user_id, Subject.goal_id, Topic.subject_id of the rows of the model
GoalUser(g) == IF g = 2 THEN 10 ELSE 1
SubjectGoal(s) == IF s = 3 THEN 2 ELSE IF s = 4 THEN 3 ELSE 1
TopicSubject(t) == t
\* goal.subjects, in primary key order
RECURSIVE SeqOfSet(_)
SeqOfSet(S) ==
    IF S = {} THEN <<>>
    ELSE LET x == CHOOSE y \in S : \A z \in S : y <= z
         IN  <<x>> \o SeqOfSet(S \ {x})
GoalSubjects(g) == SeqOfSet({s \in Subjects : SubjectGoal(s) = g})
\* Goal.delta_decay (column default 0.7)
GoalDeltaDecay(g) == Some(DELTA_DECAY_DEFAULT)

VARIABLES
    today,       \* ist_today() as a day number
    rowLocking,  \* whether the configured database honours SELECT ... FOR UPDATE
    subjWeight,  \* subjects.subject_weight, per subject (optional)
    units,       \* committed rows of tasks: id -> row
    snapshots,   \* committed rows of daily_snapshots: <<user, date>> -> row
    idemLog,     \* committed rows of idempotency_logs: key -> row
    pc,          \* per request slot: where its handler stands
    req,         \* per request slot: the request being handled
    loc,         \* per request slot: the handler's local variables
    sess,        \* per request slot: the SQLAlchemy session (uncommitted work)
    resp,        \* per request slot: the last response sent
    sent,        \* history: per key, the request that logged it and the response it got
    persisted,   \* history: per slot, whether the current request has committed anything
    retOut,      \* the result of the last stand-alone retirement check
    planOut,     \* the last response of the plan / status endpoints
    cache,       \* cache.py _cache: cache key -> [timestamp, response]
    clock,       \* time.time(), in seconds
    cacheEnabled, \* ENABLE_PLAN_CACHE is 'true'
    predictionEnabled, \* the environment variable PREDICTION_ENABLED
    dicts        \* the list of task dicts a caller of the simulator holds

vars == <<today, rowLocking, subjWeight, units, snapshots, idemLog, pc, req, loc,
          sess, resp, sent, persisted, retOut, planOut, cache, clock, cacheEnabled,
          dicts, predictionEnabled>>
cachevars == <<cache, clock, cacheEnabled, dicts, predictionEnabled>>
dbvars == <<units, snapshots, idemLog>>

\* A row of tasks (models.py Task); defaults are the column defaults. version
\* is the column migrations/add_stage4_tables.py adds (DEFAULT 1); the Task
\* class maps no attribute to it.
TaskRow(user, topic, planned, w, m, last, stage, derived, retired, est) ==
    [user_id |-> user, topic_id |-> topic, planned_date |-> planned, version |-> 1,
     concept_weight |-> w, mastery |-> m, last_studied_at |-> last,
     spaced_stage |-> stage, bayesian_alpha |-> None, bayesian_beta |-> None,
     last_decay_date |-> None, retired_at |-> retired, derived |-> derived,
     est_hours_per_unit |-> est]

UnitSubject(u) == TopicSubject(u.topic_id)
UnitGoal(u) == SubjectGoal(UnitSubject(u))

EmptySession == [cur |-> <<>>, orig |-> <<>>, snap |-> None, log |-> None, locks |-> {}]
NoReq == [op |-> "none"]
NoLoc == [idx |-> 0]
NoResp == [status |-> 0, cause |-> "none", key |-> "none", replayed |-> FALSE,
           same_payload |-> FALSE]

\* --------------------------------------------------------- table helpers
RECURSIVE SumOver(_, _)
\* sum of f[x] over the finite set S
SumOver(f, S) ==
    IF S = {} THEN 0
    ELSE LET x == CHOOSE y \in S : TRUE IN f[x] + SumOver(f, S \ {x})

\* Task.query.join(Topic).filter(Topic.subject_id == s): ids of the rows of T
TasksOfSubject(T, s) == {id \in DOMAIN T : UnitSubject(T[id]) = s}
\* Task.query.join(Topic).join(Subject).filter(Subject.goal_id == g)
TasksOfGoal(T, g) == {id \in DOMAIN T : UnitGoal(T[id]) = g}

\* ------------------------------------------------ services/retirement.py
\* the rows should_retire_virtual_tasks counts as real
RealTasks(T, s) ==
    {id \in TasksOfSubject(T, s) : T[id].derived = FALSE /\ IsNone(T[id].retired_at)}

\* variant: coverage must exceed the threshold
should_retire_strictly_above(T, sw, s) ==
    LET subject_weight == OrElse(sw[s], 0)
        real == RealTasks(T, s)
        real_weight_sum == SumOver([id \in real |-> OrElse(T[id].concept_weight, 0)], real)
    IN  /\ s \in DOMAIN sw
        /\ subject_weight > 0
        /\ Cardinality(real) >= MIN_REAL_TASKS
        /\ real_weight_sum * 100 > COVERAGE_PCT * subject_weight
\* should_retire_virtual_tasks(goal_id, subject_id) over the rows T
should_retire_virtual_tasks(T, sw, s) ==
    LET subject_weight == OrElse(sw[s], 0)
        real == RealTasks(T, s)
        real_weight_sum == SumOver([id \in real |-> OrElse(T[id].concept_weight, 0)], real)
    IN  IF s \notin DOMAIN sw THEN FALSE
        ELSE IF subject_weight = 0 THEN FALSE
        ELSE IF Cardinality(real) < MIN_REAL_TASKS THEN FALSE
        ELSE IF subject_weight > 0
             THEN real_weight_sum * 100 >= COVERAGE_PCT * subject_weight
             ELSE FALSE

\* variant: rows already retired are stamped again
VirtualTasksRestamped(T, s) ==
    {id \in TasksOfSubject(T, s) : T[id].derived = TRUE}
\* variant: every active row of the subject is stamped
VirtualTasksAnyOrigin(T, s) ==
    {id \in TasksOfSubject(T, s) : IsNone(T[id].retired_at)}
\* the rows retire_virtual_tasks stamps
VirtualTasks(T, s) ==
    {id \in TasksOfSubject(T, s) : T[id].derived = TRUE /\ IsNone(T[id].retired_at)}

\* ------------------------------------- compute_goal_status / generate_plan
\* the rows the status and plan endpoints hand to the engine for goal g
StatusTasks(T, g) == TasksOfGoal(T, g)

\* mastery after decay, as compute_goal_status and simulate_daily_plan compute it
MasteryCurrent(u, t) == apply_decay(u.mastery, LAMBDA_FALLBACK, days_since(u.last_studied_at, t))

\* compute_goal_status over the rows of goal g: mu and sigma2 in hundredths of marks
GoalStatus(T, g, t) ==
    LET ids == StatusTasks(T, g)
        w(id) == OrElse(T[id].concept_weight, 0)
        m(id) == MasteryCurrent(T[id], t)
        mu == (SumOver([id \in ids |-> w(id) * m(id)], ids) * 2004) \div 10000
        sigma2 == SumOver([id \in ids |->
                     ((((w(id) * w(id)) \div 1000) * ((m(id) * (100 - m(id))) \div 100))
                        * 4016) \div 10000], ids)
        total == Cardinality(ids)
        mastered == Cardinality({id \in ids : m(id) >= MASTERED_PCT})
        msum == SumOver([id \in ids |-> m(id)], ids)
    IN  [mu |-> mu, sigma2 |-> sigma2, total_tasks |-> total,
         mastered_tasks |-> mastered,
         avg_mastery |-> IF total > 0 THEN msum \div total ELSE 0]

\* list.sort(key, reverse=True)[:n] on rows in id order: the n ids of S with
\* the largest key, earlier ids first among equal keys (the sort is stable)
RECURSIVE TopN(_, _, _)
TopN(S, key, n) ==
    IF S = {} \/ n <= 0 THEN {}
    ELSE LET best == CHOOSE x \in S :
                        \A y \in S : key[x] > key[y] \/ (key[x] = key[y] /\ x <= y)
         IN  {best} \cup TopN(S \ {best}, key, n - 1)

\* sph(concept_weight, mastery, t_est_hours) with t_est_hours = 4.0, the value
\* generate_plan passes for every task ("task.t_est_hours or 4.0", column default)
SphScore(u, t) == (OrElse(u.concept_weight, 0) * (100 - MasteryCurrent(u, t))) \div 2
\* rpf(concept_weight, mastery, lambda, days), times 1.5 when due for review
RpfScore(u, t) ==
    LET d == days_since(u.last_studied_at, t)
        base == IF d <= 0 THEN 0
                ELSE (OrElse(u.concept_weight, 0) * MasteryCurrent(u, t)
                        * (1000 - DecayFactor(LAMBDA_FALLBACK, d))) \div 1000
        interval == IF u.spaced_stage <= 0 THEN 1
                    ELSE IF u.spaced_stage = 1 THEN 3
                    ELSE IF u.spaced_stage = 2 THEN 7
                    ELSE IF u.spaced_stage = 3 THEN 14 ELSE 30
        due == IsNone(u.last_studied_at) \/ t >= Val(u.last_studied_at) + interval
    IN  IF due /\ MasteryCurrent(u, t) > REV_MASTERY_FLOOR THEN (base * 3) \div 2 ELSE base

\* ------------------------------------- the simulator on lists of task dicts
\* a function as the explicit table of its values
Table(f) == f @@ <<>>

\* dict.get(key, default) on an optional entry
Get(o, d) == IF IsNone(o) THEN d ELSE Val(o)

\* the dict generate_plan builds for a row (routes.py 134-150); the keys the
\* simulator adds are absent. The row's derived flag is not copied.
TaskDict(id, u) ==
    [task_id |-> id, concept_weight |-> OrElse(u.concept_weight, 0),
     mastery |-> u.mastery, last_studied_at |-> u.last_studied_at,
     spaced_stage |-> u.spaced_stage,
     mastery_after_decay |-> None, days_since_last |-> None, sph_priority |-> None,
     rpf_priority |-> None, allocated_hours |-> None, mastery_after_study |-> None,
     derived |-> None, mastery_current |-> None]
\* tasks_data of generate_plan for goal g
BuildTaskDicts(T, g) == Table([id \in TasksOfGoal(T, g) |-> TaskDict(id, T[id])])

\* sph(concept_weight, mastery, t_est_hours), t_est_hours = 4.0
sph(w, m) == (w * (100 - m)) \div 2
\* rpf(concept_weight, mastery, lambda_forgetting, days_since_last)
rpf(w, m, lam, days) ==
    IF days <= 0 THEN 0 ELSE (w * m * (1000 - DecayFactor(lam, days))) \div 1000
\* next_due_date(last_studied, current_stage) - last_studied
DaysInterval(stage) ==
    IF stage <= 0 THEN 1 ELSE IF stage = 1 THEN 3 ELSE IF stage = 2 THEN 7
    ELSE IF stage = 3 THEN 14 ELSE 30
\* is_due_for_review(last_studied, current_stage, today)
is_due_for_review(last, stage, t) ==
    IsNone(last) \/ t >= Val(last) + DaysInterval(stage)

\* Step 1 writing the decayed value over the dict's mastery
DecayStepInPlace(d, t) ==
    LET days == days_since(d.last_studied_at, t)
    IN  [d EXCEPT !.mastery = apply_decay(d.mastery, LAMBDA_FALLBACK, days),
                  !.mastery_after_decay = Some(apply_decay(d.mastery, LAMBDA_FALLBACK, days)),
                  !.days_since_last = Some(days)]
\* Step 1 of simulate_daily_plan on one dict
DecayStep(d, t) ==
    LET days == days_since(d.last_studied_at, t)
    IN  [d EXCEPT !.mastery_after_decay = Some(apply_decay(d.mastery, LAMBDA_FALLBACK, days)),
                  !.days_since_last = Some(days)]
IsNewCandidate(d) == Get(d.mastery_after_decay, 0) < NEW_MASTERY_CAP
IsRevisionCandidate(d) ==
    /\ Get(d.mastery_after_decay, 0) > REV_MASTERY_FLOOR
    /\ Get(d.days_since_last, 0) >= REV_MIN_DAYS
\* Step 3 of simulate_daily_plan on one dict: the priorities and the boost,
\* which multiplies whatever rpf_priority the dict holds
PriorityStep(d, t) ==
    LET m == Get(d.mastery_after_decay, 0)
        sp == IF IsNewCandidate(d) THEN Some(sph(d.concept_weight, m)) ELSE d.sph_priority
        rp == IF IsRevisionCandidate(d)
              THEN Some(rpf(d.concept_weight, m, LAMBDA_FALLBACK, Get(d.days_since_last, 0)))
              ELSE d.rpf_priority
        boosted == IF is_due_for_review(d.last_studied_at, d.spaced_stage, t)
                      /\ m > REV_MASTERY_FLOOR
                   THEN Some((Get(rp, 0) * 3) \div 2) ELSE rp
    IN  [d EXCEPT !.sph_priority = sp, !.rpf_priority = boosted]

\* allocate_time_by_priority(tasks, total_hours, key) on the dicts sel of D:
\* the dicts after the call and the ids of the returned list; hours in
\* hundredths
allocate_time_by_priority(D, sel, total_hours, key) ==
    IF sel = {} \/ total_hours <= 0 THEN [tasks |-> D, out |-> {}]
    ELSE LET priority == Table([id \in sel |-> Get(D[id][key], 0)])
             total_priority == SumOver(priority, sel)
             hours(id) == IF total_priority <= 0
                          THEN total_hours \div Cardinality(sel)
                          ELSE (priority[id] * total_hours) \div total_priority
         IN  [tasks |-> Table([id \in DOMAIN D |->
                           IF id \in sel
                           THEN [D[id] EXCEPT !.allocated_hours = Some(hours(id))]
                           ELSE D[id]]),
              out |-> sel]

\* expected_and_var(tasks)[0] with total_marks = 200, in hundredths of marks
ExpectedMu(D, m) ==
    (SumOver(Table([id \in DOMAIN D |-> D[id].concept_weight * m[id]]), DOMAIN D) * 2) \div 1000

\* simulate_daily_plan, Step 1: decay on every dict of the list
SimDecay(D, t) == Table([id \in DOMAIN D |-> DecayStep(D[id], t)])
\* Step 3: priorities on every dict of the list
SimPriorities(D1, t) == Table([id \in DOMAIN D1 |-> PriorityStep(D1[id], t)])
\* Step 4: new_candidates / revision_candidates sorted, cut to the top N
\* variant: new_candidates cut in list order, without the sort
SelectedNewInListOrder(D2) ==
    TopN({id \in DOMAIN D2 : IsNewCandidate(D2[id])},
         Table([id \in DOMAIN D2 |-> 0]), TOP_NEW)
SelectedNew(D2) ==
    TopN({id \in DOMAIN D2 : IsNewCandidate(D2[id])},
         Table([id \in DOMAIN D2 |-> Get(D2[id].sph_priority, 0)]), TOP_NEW)
SelectedRevision(D2) ==
    TopN({id \in DOMAIN D2 : IsRevisionCandidate(D2[id])},
         Table([id \in DOMAIN D2 |-> Get(D2[id].rpf_priority, 0)]), TOP_REVISION)
\* Step 5: the allocation to the new list, then to the revision list; both
\* write allocated_hours into the dicts of the one list of tasks
AllocateRevision(A1, selected_revision, hours_revision) ==
    [new_tasks |-> A1.out, first |-> A1.tasks,
     second |-> allocate_time_by_priority(A1.tasks, selected_revision, hours_revision,
                                          "rpf_priority")]
Allocated(D2, hours_new, hours_revision) ==
    AllocateRevision(allocate_time_by_priority(D2, SelectedNew(D2), hours_new, "sph_priority"),
                     SelectedRevision(D2), hours_revision)
\* Step 6, first loop: learning outcome and derived on the dicts of new_tasks
SimLearn(D, new_tasks) ==
    Table([id \in DOMAIN D |->
        IF id \in new_tasks
        THEN [D[id] EXCEPT
                !.mastery_after_study =
                    Some(learn_update(Get(D[id].mastery_after_decay, 0),
                                      Get(D[id].allocated_hours, 0),
                                      T_EST_DEFAULT, ETA_LEARN_DEFAULT)),
                !.derived = Some(~IsNone(Some(D[id].concept_weight)))]
        ELSE D[id]])
\* Step 6, second loop: the same on the dicts of revision_tasks
SimRevise(D, revision_tasks) ==
    Table([id \in DOMAIN D |->
        IF id \in revision_tasks
        THEN [D[id] EXCEPT
                !.mastery_after_study =
                    Some(revise_update(Get(D[id].mastery_after_decay, 0),
                                       Get(D[id].allocated_hours, 0),
                                       T_EST_DEFAULT, RHO_REVISE_DEFAULT)),
                !.derived = Some(~IsNone(Some(D[id].concept_weight)))]
        ELSE D[id]])
\* Step 7 and the returned dict
SimReturn(D4, new_tasks, revision_tasks, hours_new, hours_revision) ==
    [tasks |-> D4, new_tasks |-> new_tasks, revision_tasks |-> revision_tasks,
     hours_new |-> hours_new, hours_revision |-> hours_revision,
     mu_before |-> ExpectedMu(D4, Table([id \in DOMAIN D4 |->
                                            Get(D4[id].mastery_after_decay, 0)])),
     mu_after |-> ExpectedMu(D4, Table([id \in DOMAIN D4 |->
                        IF id \in new_tasks \cup revision_tasks
                        THEN Val(D4[id].mastery_after_study)
                        ELSE Get(D4[id].mastery_after_decay, 0)]))]
SimOutcome(A, hours_new, hours_revision) ==
    SimReturn(SimRevise(SimLearn(A.second.tasks, A.new_tasks), A.second.out),
              A.new_tasks, A.second.out, hours_new, hours_revision)

\* simulate_daily_plan(tasks, daily_hours, split_new, today): the dicts of the
\* list after the call (the call writes its annotations into them) and the
\* returned plan, whose lists hold those same dicts
simulate_daily_plan(D, daily_hours, split_new, t) ==
    SimOutcome(Allocated(SimPriorities(SimDecay(D, t), t),
                         (daily_hours * split_new) \div 100,
                         (daily_hours * (100 - split_new)) \div 100),
               (daily_hours * split_new) \div 100,
               (daily_hours * (100 - split_new)) \div 100)

\* an entry of new_tasks / revision_tasks as generate_plan returns it
\* (routes.py 165-190)
PlanEntryNew(d) ==
    [task_id |-> d.task_id, allocated_hours |-> Get(d.allocated_hours, 0),
     mastery_before |-> Get(d.mastery_after_decay, 0),
     mastery_after |-> Get(d.mastery_after_study, 0),
     sph_priority |-> Get(d.sph_priority, 0), derived |-> Get(d.derived, FALSE)]
PlanEntryRevision(d) ==
    [task_id |-> d.task_id, allocated_hours |-> Get(d.allocated_hours, 0),
     mastery_before |-> Get(d.mastery_after_decay, 0),
     mastery_after |-> Get(d.mastery_after_study, 0),
     rpf_priority |-> Get(d.rpf_priority, 0),
     days_since_last |-> Get(d.days_since_last, 0), derived |-> Get(d.derived, FALSE)]
\* the plan r of simulate_daily_plan, its lists read from the dicts as they
\* are when the call returns
PlanResult(r) ==
    [new_tasks |-> r.new_tasks, revision_tasks |-> r.revision_tasks,
     new_entries |-> Table([id \in r.new_tasks |-> PlanEntryNew(r.tasks[id])]),
     revision_entries |-> Table([id \in r.revision_tasks |-> PlanEntryRevision(r.tasks[id])]),
     hours_new |-> r.hours_new, hours_revision |-> r.hours_revision,
     mu_before |-> r.mu_before, mu_after |-> r.mu_after]

RECURSIVE GeoSum(_, _, _)
\* daily_delta * (1 - delta_decay^days) / (1 - delta_decay), as the sum of
\* the series; delta_decay in hundredths
GeoSum(daily_delta, delta_decay, days) ==
    IF days <= 0 THEN 0
    ELSE daily_delta + FloorDiv(delta_decay * GeoSum(daily_delta, delta_decay, days - 1), 100)
\* project_mu(current_mu, daily_delta, days_remaining, delta_decay)
project_mu(current_mu, daily_delta, days_remaining, delta_decay) ==
    IF days_remaining <= 0 THEN current_mu
    ELSE current_mu + GeoSum(daily_delta, delta_decay, days_remaining)

\* compute_goal_status, first loop: mastery_current on every dict
StatusDecay(D, t) ==
    Table([id \in DOMAIN D |->
        [D[id] EXCEPT !.mastery_current =
            Some(apply_decay(D[id].mastery, LAMBDA_FALLBACK,
                             days_since(D[id].last_studied_at, t)))]])
\* the returned status; plan is the simulated plan when the exam lies ahead
StatusReturn(D1, mu, simulated, plan, days_remaining) ==
    [tasks |-> IF simulated THEN plan.tasks ELSE D1,
     status |->
       [mu |-> mu,
        mu_exam |-> IF simulated
                    THEN project_mu(mu, plan.mu_after - plan.mu_before,
                                    days_remaining, DELTA_DECAY_DEFAULT)
                    ELSE mu,
        days_remaining |-> days_remaining,
        total_tasks |-> Cardinality(DOMAIN D1),
        mastered_tasks |->
            Cardinality({id \in DOMAIN D1 : Val(D1[id].mastery_current) >= MASTERED_PCT}),
        avg_mastery |->
            IF DOMAIN D1 # {}
            THEN SumOver(Table([id \in DOMAIN D1 |-> Val(D1[id].mastery_current)]), DOMAIN D1)
                    \div Cardinality(DOMAIN D1)
            ELSE 0]]
StatusFrom(D1, exam_date, daily_hours, split_new, t) ==
    StatusReturn(D1,
        (SumOver(Table([id \in DOMAIN D1 |->
                    D1[id].concept_weight * Val(D1[id].mastery_current)]), DOMAIN D1) * 2004)
            \div 10000,
        ~IsNone(exam_date) /\ Get(exam_date, t) - t > 0,
        simulate_daily_plan(D1, daily_hours, split_new, t),
        IF IsNone(exam_date) THEN 0 ELSE Val(exam_date) - t)
\* compute_goal_status(tasks, threshold_marks, exam_date, daily_hours,
\* split_new, delta_decay, today): the dicts after the call and the status
compute_goal_status(D, exam_date, daily_hours, split_new, t) ==
    StatusFrom(StatusDecay(D, t), exam_date, daily_hours, split_new, t)

\* ---------------------------------------------------- SQLAlchemy session
\* UPDATE writes only the columns the session changed
Merge(committed, orig, cur) ==
    [f \in DOMAIN cur |-> IF cur[f] # orig[f] THEN cur[f] ELSE committed[f]]

\* the rows of tasks a query of session p sees: committed rows, with the
\* session's own flushed changes and inserts
DbView(p) ==
    LET c == sess[p].cur
        o == sess[p].orig
    IN  [id \in (DOMAIN units) \cup (DOMAIN c) |->
            IF id \in DOMAIN c
            THEN IF id \in DOMAIN units THEN Merge(units[id], o[id], c[id]) ELSE c[id]
            ELSE units[id]]

\* the object a query hands back for row id: the identity map's, if loaded
Obj(p, id) == IF id \in DOMAIN sess[p].cur THEN sess[p].cur[id] ELSE units[id]

\* session p with row id holding u (loaded first if it was not)
Store(S, id, u, loaded) ==
    [S EXCEPT !.cur = (id :> u) @@ S.cur,
              !.orig = IF id \in DOMAIN S.orig THEN S.orig ELSE (id :> loaded) @@ S.orig]

\* rows locked FOR UPDATE by a session other than p
LockedByOther(p) == UNION {sess[q].locks : q \in Procs \ {p}}

\* idempotency_logs.idempotency_key is unique: can the pending row be inserted
LogInsertOK(S, log) == IsNone(S.log) \/ Val(S.log).idempotency_key \notin DOMAIN log

\* db.session.commit(): the tables after session S commits over view V
CommitSnapshots(S) ==
    IF IsNone(S.snap) THEN snapshots
    ELSE (<<Val(S.snap).user_id, Val(S.snap).snapshot_date>> :> Val(S.snap)) @@ snapshots
CommitLog(S) ==
    IF IsNone(S.log) THEN idemLog
    ELSE (Val(S.log).idempotency_key :> Val(S.log)) @@ idemLog

\* the next autoincrement id of tasks
NextTaskId ==
    LET used == (DOMAIN units) \cup UNION {DOMAIN sess[q].cur : q \in Procs}
    IN  IF used = {} THEN 1 ELSE (CHOOSE x \in used : \A y \in used : y <= x) + 1

\* ------------------------------------------------ routes.py: apply_plan
\* variant: the key is scoped by the operation that used it
IdempotencyKeyPerOperation(data) == <<data.key, data.op>>
\* idempotency_key = data['idempotency_key']: the key looked up and logged
IdempotencyKey(data) == data.key

\* IdempotencyLog.query.filter_by(idempotency_key=...).first()
ExistingLog(log, k) == IF k \in DOMAIN log THEN Some(log[k]) ELSE None

\* Goal.query.filter_by(goal_id=..., user_id=current_user.id) finds a row
GoalOwned(g, user) == g \in Goals /\ GoalUser(g) = user

\* variant: the stage advances without a ceiling
NextStageUncapped(stage) == stage + 1
\* task.spaced_stage after a 'revise' line
NextStage(stage) == Min(stage + 1, MAX_STAGE)

\* the mastery apply_plan stores for a line of the given mode
AppliedMastery(old, mode, alloc, est) ==
    IF mode = "learn"
    THEN Min(100, old + learn_update(old, ETA_APPLY, alloc, OrElse(est, T_EST_FALLBACK)))
    ELSE IF mode = "revise"
    THEN Min(100, old + revise_update(old, RHO_APPLY, alloc, OrElse(est, T_EST_FALLBACK)))
    ELSE old

\* lines 548-592: the task after one line of the plan is applied to it.
\* hasattr(task, 'version') (line 588) is False for models.py's Task, so the
\* version column is left as it is.
ApplyLineToTask(u, line, g, now, plan_date) ==
    LET days == days_since(u.last_studied_at, now)
        decayed == IF ~IsNone(u.last_studied_at) /\ days > 0
                   THEN apply_decay(u.mastery, OrElse(GoalDeltaDecay(g), LAMBDA_FALLBACK), days)
                   ELSE u.mastery
        m == AppliedMastery(decayed, line.mode, line.alloc_hours, u.est_hours_per_unit)
        init == IsNone(u.bayesian_alpha) \/ IsNone(u.bayesian_beta)
    IN  [u EXCEPT !.mastery = m,
                  !.spaced_stage = IF line.mode = "revise" THEN NextStage(@) ELSE @,
                  !.last_studied_at = Some(plan_date),
                  !.bayesian_alpha = IF init THEN Some(bayes_init(m)[1]) ELSE @,
                  !.bayesian_beta = IF init THEN Some(bayes_init(m)[2]) ELSE @,
                  !.last_decay_date = Some(plan_date)]

\* Task(...) of lines 535-543, with the column defaults
NewVirtualTask(user, topic, plan_date, alloc) ==
    TaskRow(user, topic, plan_date, None, 0, None, 0, TRUE, None, Some(alloc))

\* UniqueConstraint('user_id', 'topic_id', 'planned_date') holds for a new row
TaskInsertOK(T, u) ==
    \A id \in DOMAIN T :
        ~(T[id].user_id = u.user_id /\ T[id].topic_id = u.topic_id
            /\ T[id].planned_date = u.planned_date)

\* responses
\* cause names the branch of the handler that answered; same_payload, on a
\* replay, whether the request equals the one that logged the key
Resp(status, body, k, cause) ==
    [status |-> status, body |-> body, key |-> k, cause |-> cause,
     replayed |-> FALSE, same_payload |-> FALSE]
\* by and by_op name the user and the operation of the request answered
Replay(row, data) ==
    [status |-> 200, body |-> Val(row.response_data), key |-> data.key,
     cause |-> "replay", replayed |-> TRUE, same_payload |-> row.request_hash = data,
     by |-> data.user, by_op |-> data.op]
ErrBody(msg) == [error |-> msg]
\* the key of the request already has a logged response
KeyLogged(k) ==
    \E x \in DOMAIN idemLog :
        idemLog[x].request_hash.key = k /\ ~IsNone(idemLog[x].response_data)

\* request ends: the slot is free again, the session is discarded
EndRequest(p, r) ==
    /\ resp' = [resp EXCEPT ![p] = r]
    /\ pc' = [pc EXCEPT ![p] = "idle"]
    /\ req' = [req EXCEPT ![p] = NoReq]
    /\ loc' = [loc EXCEPT ![p] = NoLoc]
    /\ sess' = [sess EXCEPT ![p] = EmptySession]

\* lines 442-487: validation, goal ownership, idempotency lookup, status before
ApplyBegin(p, data) ==
    /\ UNCHANGED cachevars
    /\ pc[p] = "idle"
    /\ persisted' = [persisted EXCEPT ![p] = FALSE]
    /\ UNCHANGED <<today, rowLocking, subjWeight, units, snapshots, idemLog, sent,
                   retOut, planOut>>
    /\ LET k == IdempotencyKey(data)
           existing == ExistingLog(idemLog, k)
       IN  IF data.missing = "key"
           THEN EndRequest(p, Resp(400, ErrBody("idempotency_key required"), data.key, "invalid"))
           ELSE IF data.missing = "goal"
           THEN EndRequest(p, Resp(400, ErrBody("goal_id required"), data.key, "invalid"))
           ELSE IF data.missing = "tasks"
           THEN EndRequest(p, Resp(400, ErrBody("tasks array required"), data.key, "invalid"))
           ELSE IF ~GoalOwned(data.goal_id, data.user)
           THEN EndRequest(p, Resp(500, ErrBody("Failed to apply plan"), data.key, "goal_404"))
           ELSE IF ~IsNone(existing)
           THEN IF ~IsNone(Val(existing).response_data)
                THEN EndRequest(p, Replay(Val(existing), data))
                ELSE EndRequest(p, Resp(409, ErrBody("Duplicate request detected"), data.key,
                                        "conflict"))
           ELSE /\ pc' = [pc EXCEPT ![p] = "lines"]
                /\ req' = [req EXCEPT ![p] = data]
                /\ loc' = [loc EXCEPT ![p] =
                              [idx |-> 1, plan_date |-> today,
                               key_logged |-> KeyLogged(data.key),
                               status_before |-> GoalStatus(units, data.goal_id, today),
                               created_count |-> 0, updated_count |-> 0,
                               task_ids_updated |-> <<>>,
                               response_data |-> <<>>, retirement_log |-> <<>>,
                               subjects |-> <<>>]]
                /\ UNCHANGED <<sess, resp>>

\* the transaction of request p fails: rollback, generic failure response
Rollback(p, cause) ==
    EndRequest(p, Resp(500, ErrBody("Failed to apply plan"), req[p].key, cause))

\* variant: only negative hours are skipped
SkipLineOnlyNegative(line) == line.alloc_hours < 0
\* "if alloc_hours <= 0: continue" (routes.py 501-502)
SkipLine(line) == line.alloc_hours <= 0

\* lines 496-592: one line of the plan
ApplyLine(p) ==
    /\ UNCHANGED cachevars
    /\ pc[p] = "lines"
    /\ loc[p].idx <= Len(req[p].tasks)
    /\ UNCHANGED <<today, rowLocking, subjWeight, units, snapshots, idemLog, sent,
                   persisted, retOut, planOut>>
    /\ LET line == req[p].tasks[loc[p].idx]
           data == req[p]
           skip == /\ loc' = [loc EXCEPT ![p].idx = @ + 1]
                   /\ UNCHANGED <<pc, req, sess, resp>>
           applied(id, u, loaded, created, S) ==
               /\ sess' = [sess EXCEPT ![p] =
                             Store(S, id,
                                   ApplyLineToTask(u, line, data.goal_id, today,
                                                   loc[p].plan_date),
                                   loaded)]
               /\ loc' = [loc EXCEPT ![p].idx = @ + 1,
                                     ![p].created_count = @ + created,
                                     ![p].updated_count = @ + 1,
                                     ![p].task_ids_updated = Append(@, id)]
               /\ UNCHANGED <<pc, req, resp>>
       IN  IF SkipLine(line) THEN skip
           ELSE IF OrElse(line.task_id, 0) # 0
           THEN LET id == Val(line.task_id)
                    V == DbView(p)
                IN  IF id \notin DOMAIN V \/ V[id].user_id # data.user THEN skip
                    ELSE /\ rowLocking => id \notin LockedByOther(p)
                         /\ applied(id, Obj(p, id), Obj(p, id), 0,
                                    [sess[p] EXCEPT !.locks = @ \cup {id}])
           ELSE IF OrElse(line.subject_id, 0) = 0 \/ OrElse(line.topic_id, 0) = 0 THEN skip
           ELSE LET topic == Val(line.topic_id)
                    subject == Val(line.subject_id)
                IN  IF ~(topic \in Topics /\ TopicSubject(topic) = subject
                           /\ subject \in Subjects /\ SubjectGoal(subject) = data.goal_id)
                    THEN skip
                    ELSE LET u == NewVirtualTask(data.user, topic, loc[p].plan_date,
                                                 line.alloc_hours)
                         IN  IF TaskInsertOK(DbView(p), u)
                             THEN applied(NextTaskId, u, u, 1, sess[p])
                             ELSE Rollback(p, "task_unique")

\* lines 594-660: status after, snapshot upsert, response, idempotency row
ApplyFlush(p) ==
    /\ UNCHANGED cachevars
    /\ pc[p] = "lines"
    /\ loc[p].idx > Len(req[p].tasks)
    /\ UNCHANGED <<today, rowLocking, subjWeight, units, snapshots, idemLog, sent,
                   persisted, req, resp, retOut, planOut>>
    /\ \E status_after \in {GoalStatus(Table(DbView(p)), req[p].goal_id, today)} :
       LET data == req[p]
           l == loc[p]
           delta_mu_day == status_after.mu - l.status_before.mu
           snapshot == [snapshot_date |-> l.plan_date, user_id |-> data.user,
                        mu |-> status_after.mu, sigma2 |-> status_after.sigma2,
                        delta_mu_day |-> delta_mu_day,
                        hours_planned |->
                            SumOver([i \in DOMAIN data.tasks |-> data.tasks[i].alloc_hours],
                                    DOMAIN data.tasks)]
           response_data ==
               [success |-> TRUE,
                applied_tasks |-> Len(l.task_ids_updated),
                created_tasks |-> l.created_count,
                updated_tasks |-> l.updated_count,
                task_ids |-> l.task_ids_updated,
                snapshot |-> [mu_before |-> l.status_before.mu,
                              mu_after |-> status_after.mu,
                              delta_mu_day |-> delta_mu_day,
                              sigma2_after |-> status_after.sigma2],
                metadata |-> [plan_date |-> l.plan_date, goal_id |-> data.goal_id],
                retirement |-> <<>>]
           idem_log == [idempotency_key |-> IdempotencyKey(data), user_id |-> data.user,
                        goal_id |-> data.goal_id, operation_type |-> "apply_plan",
                        operation_date |-> l.plan_date, request_hash |-> data,
                        response_data |-> Some(response_data)]
       IN  /\ sess' = [sess EXCEPT ![p].snap = Some(snapshot), ![p].log = Some(idem_log)]
           /\ loc' = [loc EXCEPT ![p].response_data = response_data,
                                 ![p].subjects = GoalSubjects(data.goal_id)]
           /\ pc' = [pc EXCEPT ![p] = "retire"]

\* db.session.commit() of session S of request p
CommitSession(p, S) ==
    /\ units' = [id \in (DOMAIN units) \cup (DOMAIN S.cur) |->
                    IF id \in DOMAIN S.cur
                    THEN IF id \in DOMAIN units
                         THEN Merge(units[id], S.orig[id], S.cur[id]) ELSE S.cur[id]
                    ELSE units[id]]
    /\ snapshots' = CommitSnapshots(S)
    /\ idemLog' = CommitLog(S)
    /\ persisted' = [persisted EXCEPT ![p] = TRUE]

\* auto_retire_check, one subject of goal.subjects per step (retirement.py 92-99)
ApplyRetire(p) ==
    /\ UNCHANGED cachevars
    /\ pc[p] = "retire"
    /\ UNCHANGED <<today, rowLocking, subjWeight, sent, retOut, planOut>>
    /\ IF ~LogInsertOK(sess[p], idemLog)
       THEN Rollback(p, "duplicate_key") /\ UNCHANGED <<units, snapshots, idemLog, persisted>>
       ELSE IF loc[p].subjects = <<>>
       THEN /\ pc' = [pc EXCEPT ![p] = "commit"]
            /\ UNCHANGED <<units, snapshots, idemLog, persisted, req, loc, sess, resp>>
       ELSE \E V \in {Table(DbView(p))} :
            \E virtual \in {IF should_retire_virtual_tasks(V, subjWeight, Head(loc[p].subjects))
                             THEN VirtualTasks(V, Head(loc[p].subjects)) ELSE {}} :
            LET s == Head(loc[p].subjects)
                count == Cardinality(virtual)
                S == [sess[p] EXCEPT
                        !.cur = [id \in (DOMAIN @) \cup virtual |->
                                    IF id \in virtual
                                    THEN [Obj(p, id) EXCEPT !.retired_at = Some(today)]
                                    ELSE @[id]],
                        !.orig = [id \in (DOMAIN @) \cup virtual |->
                                    IF id \in DOMAIN @ THEN @[id] ELSE units[id]]]
            IN  /\ rowLocking => virtual \cap LockedByOther(p) = {}
                /\ loc' = [loc EXCEPT
                             ![p].subjects = Tail(@),
                             ![p].retirement_log =
                                 IF count > 0 THEN (s :> [tasks_retired |-> count]) @@ @
                                 ELSE @]
                /\ UNCHANGED <<pc, req, resp>>
                /\ IF count > 0
                   THEN /\ CommitSession(p, S)
                        /\ sess' = [sess EXCEPT ![p] = EmptySession]
                   ELSE /\ sess' = sess
                        /\ UNCHANGED <<units, snapshots, idemLog, persisted>>

\* lines 665-672: the retirement section, the commit and the response
ApplyCommit(p) ==
    /\ UNCHANGED cachevars
    /\ pc[p] = "commit"
    /\ UNCHANGED <<today, rowLocking, subjWeight, retOut, planOut>>
    /\ IF ~LogInsertOK(sess[p], idemLog)
       THEN /\ Rollback(p, "duplicate_key")
            /\ UNCHANGED <<units, snapshots, idemLog, persisted, sent>>
       ELSE LET body == [loc[p].response_data EXCEPT !.retirement = loc[p].retirement_log]
                r == Resp(200, body, req[p].key, "applied")
            IN  /\ CommitSession(p, sess[p])
                /\ sent' = (req[p].key :> [data |-> req[p], resp |-> r]) @@ sent
                /\ EndRequest(p, r)

\* any step of the transaction may raise (storage error, lock timeout):
\* lines 674-684
ApplyFail(p) ==
    /\ UNCHANGED cachevars
    /\ pc[p] \in {"lines", "retire", "commit"}
    /\ Rollback(p, "storage")
    /\ UNCHANGED <<today, rowLocking, subjWeight, units, snapshots, idemLog, sent,
                   persisted, retOut, planOut>>

\* the wait for a row lock never ends by itself
LockWaitNeverEnds(p) == FALSE
\* the with_for_update() query of the next line (routes.py 505-508) waits for
\* a row another transaction has locked
LockWait(p) ==
    /\ rowLocking
    /\ pc[p] = "lines"
    /\ loc[p].idx <= Len(req[p].tasks)
    /\ req[p].tasks[loc[p].idx].alloc_hours > 0
    /\ OrElse(req[p].tasks[loc[p].idx].task_id, 0) # 0
    /\ Val(req[p].tasks[loc[p].idx].task_id) \in LockedByOther(p)

\* the database ends the wait with an error (deadlock victim, lock wait
\* timeout): the query raises, the handler rolls back and answers 500
LockWaitAbort(p) ==
    /\ UNCHANGED cachevars
    /\ LockWait(p)
    /\ Rollback(p, "lock_wait")
    /\ UNCHANGED <<today, rowLocking, subjWeight, units, snapshots, idemLog, sent,
                   persisted, retOut, planOut>>

\* ------------------------------------------------ routes.py: quiz_update
\* k_correct = int((mcq_percent / 100.0) * total_questions)
KCorrect(mcq_percent, total_questions) == TruncDiv(mcq_percent * total_questions, 100)

\* lines 769-793: the task after the quiz result is applied (alpha + beta # 0)
QuizApplied(u, mcq_percent, mains_score, total_questions) ==
    LET k == KCorrect(mcq_percent, total_questions)
        ab == quiz_update_fn(OrElse(u.bayesian_alpha, 100), OrElse(u.bayesian_beta, 100),
                             k, total_questions)
        m == mastery_from_beta(ab[1], ab[2])
        mastery_new == IF mains_score > 0
                       THEN Max(m, (mains_score * MAINS_FLOOR_PCT) \div 100) ELSE m
    IN  [u EXCEPT !.bayesian_alpha = Some(ab[1]), !.bayesian_beta = Some(ab[2]),
                  !.mastery = mastery_new]

\* alpha_new + beta_new = 0: mastery_from_beta raises ZeroDivisionError
QuizDivides(u, mcq_percent, total_questions) ==
    LET ab == quiz_update_fn(OrElse(u.bayesian_alpha, 100), OrElse(u.bayesian_beta, 100),
                             KCorrect(mcq_percent, total_questions), total_questions)
    IN  ab[1] + ab[2] # 0

\* the whole handler: the row lock is taken and released within the request
QuizUpdate(p, data) ==
    /\ UNCHANGED cachevars
    /\ pc[p] = "idle"
    /\ UNCHANGED <<today, rowLocking, subjWeight, snapshots, retOut, planOut>>
    /\ LET k == IdempotencyKey(data)
           existing == ExistingLog(idemLog, k)
           id == data.task_id
           fail(status, msg) ==
               /\ EndRequest(p, Resp(status, ErrBody(msg), data.key, msg))
               /\ persisted' = [persisted EXCEPT ![p] = FALSE]
               /\ UNCHANGED <<units, idemLog, sent>>
       IN  IF data.missing # "none" THEN fail(400, "field required")
           ELSE IF ~(0 <= data.mcq_percent /\ data.mcq_percent <= 100)
           THEN fail(400, "mcq_percent must be 0-100")
           ELSE IF data.mains_score # 0 /\ ~(0 <= data.mains_score /\ data.mains_score <= 100)
           THEN fail(400, "mains_score must be 0-100")
           ELSE IF ~IsNone(existing)
           THEN /\ IF ~IsNone(Val(existing).response_data)
                   THEN EndRequest(p, Replay(Val(existing), data))
                   ELSE EndRequest(p, Resp(409, ErrBody("Duplicate request detected"),
                                           data.key, "conflict"))
                /\ persisted' = [persisted EXCEPT ![p] = FALSE]
                /\ UNCHANGED <<units, idemLog, sent>>
           ELSE IF id \notin DOMAIN units \/ units[id].user_id # data.user
           THEN fail(500, "Failed to update quiz results")
           ELSE IF ~QuizDivides(units[id], data.mcq_percent, data.total_questions)
           THEN /\ rowLocking => id \notin LockedByOther(p)
                /\ fail(500, "Failed to update quiz results")
           ELSE LET u == QuizApplied(units[id], data.mcq_percent, data.mains_score,
                                     data.total_questions)
                    body == [success |-> TRUE, task_id |-> id,
                             mastery_before |-> units[id].mastery,
                             mastery_after |-> u.mastery,
                             alpha |-> Val(u.bayesian_alpha), beta |-> Val(u.bayesian_beta)]
                    idem_log == [idempotency_key |-> k, user_id |-> data.user,
                                 goal_id |-> UnitGoal(units[id]),
                                 operation_type |-> "quiz", operation_date |-> today,
                                 request_hash |-> data, response_data |-> Some(body)]
                    r == Resp(200, body, data.key, "applied")
                IN  /\ rowLocking => id \notin LockedByOther(p)
                    /\ units' = [units EXCEPT ![id] = u]
                    /\ idemLog' = (k :> idem_log) @@ idemLog
                    /\ sent' = (data.key :> [data |-> data, resp |-> r]) @@ sent
                    /\ persisted' = [persisted EXCEPT ![p] = TRUE]
                    /\ EndRequest(p, r)

\* lines 838-845: any statement after the lookup may raise (storage error,
\* lock timeout); the handler rolls back and answers 500
QuizFail(p, data) ==
    /\ UNCHANGED cachevars
    /\ pc[p] = "idle"
    /\ data.missing = "none"
    /\ 0 <= data.mcq_percent /\ data.mcq_percent <= 100
    /\ data.mains_score = 0 \/ (0 <= data.mains_score /\ data.mains_score <= 100)
    /\ IsNone(ExistingLog(idemLog, IdempotencyKey(data)))
    /\ EndRequest(p, Resp(500, ErrBody("Failed to update quiz results"), data.key, "storage"))
    /\ persisted' = [persisted EXCEPT ![p] = FALSE]
    /\ UNCHANGED <<today, rowLocking, subjWeight, units, snapshots, idemLog, sent,
                   retOut, planOut>>

\* ----------------------------------------------------------- environment
\* midnight in Asia/Kolkata: ist_today() moves on
Tick ==
    /\ UNCHANGED cachevars
    /\ today < MaxDay
    /\ today' = today + 1
    /\ UNCHANGED <<rowLocking, subjWeight, units, snapshots, idemLog, pc, req, loc,
                   sess, resp, sent, persisted, retOut, planOut>>

\* ---------------------------------------- retirement service, stand-alone
\* retire_virtual_tasks(goal_id, subject_id) on the committed rows T at time now
retire_virtual_tasks(T, s, now) ==
    [id \in DOMAIN T |->
        IF id \in VirtualTasks(T, s) THEN [T[id] EXCEPT !.retired_at = Some(now)] ELSE T[id]]

\* auto_retire_check(goal_id): the loop over goal.subjects (given as the
\* sequence subs), returning the rows and the retirement_log
RECURSIVE auto_retire_check(_, _, _, _)
auto_retire_check(T, sw, subs, now) ==
    IF subs = <<>> THEN [rows |-> T, log |-> <<>>, eligible |-> {}]
    ELSE LET s == Head(subs)
             retire == should_retire_virtual_tasks(T, sw, s)
             count == IF retire THEN Cardinality(VirtualTasks(T, s)) ELSE 0
             T1 == IF retire THEN retire_virtual_tasks(T, s, now) ELSE T
             rest == auto_retire_check(T1, sw, Tail(subs), now)
         IN  [rows |-> rest.rows,
              eligible |-> IF retire THEN {s} \cup rest.eligible ELSE rest.eligible,
              log |-> IF count > 0 THEN (s :> [tasks_retired |-> count]) @@ rest.log
                      ELSE rest.log]

\* checkRetirement(goal): auto_retire_check called outside a request
CheckRetirement(g) ==
    /\ UNCHANGED cachevars
    /\ \A p \in Procs : pc[p] = "idle"
    /\ LET r == auto_retire_check(units, subjWeight,
                                  IF g \in Goals THEN GoalSubjects(g) ELSE <<>>, today)
       IN  /\ units' = r.rows
           /\ retOut' = [goal |-> g, log |-> r.log, eligible |-> r.eligible]
    /\ UNCHANGED <<today, rowLocking, subjWeight, snapshots, idemLog, pc, req, loc,
                   sess, resp, sent, persisted, planOut>>

\* reactivate_virtual_task(task_id)
ReactivateVirtualTask(id) ==
    /\ UNCHANGED cachevars
    /\ \A p \in Procs : pc[p] = "idle"
    /\ id \in DOMAIN units
    /\ ~IsNone(units[id].retired_at)
    /\ units' = [units EXCEPT ![id].retired_at = None]
    /\ UNCHANGED <<today, rowLocking, subjWeight, snapshots, idemLog, pc, req, loc,
                   sess, resp, sent, persisted, retOut, planOut>>

\* ------------------------------------------------- read-only endpoints
\* generate_plan: the response of the handler body
generate_plan(user, g) ==
    IF g = 0 THEN [status |-> 400, op |-> "plan"]
    ELSE IF user = 0 THEN [status |-> 500, op |-> "plan"]
    ELSE IF ~GoalOwned(g, user) THEN [status |-> 404, op |-> "plan"]
    ELSE IF TasksOfGoal(units, g) = {} THEN [status |-> 400, op |-> "plan"]
    ELSE [status |-> 200, op |-> "plan", goal_id |-> g]
         @@ PlanResult(simulate_daily_plan(BuildTaskDicts(units, g), DAILY_HOURS_DEFAULT,
                                           SPLIT_NEW_DEFAULT, today))

\* ------------------------------------------------------ predict/cache.py
\* str(n) as the sequence of its decimal digits (ids below 100)
DigitChar == <<"0", "1", "2", "3", "4", "5", "6", "7", "8", "9">>
Digits(n) == IF n < 10 THEN <<DigitChar[n + 1]>>
             ELSE <<DigitChar[(n \div 10) + 1], DigitChar[(n % 10) + 1]>>
\* the string key starts with the string prefix
StartsWith(key, prefix) ==
    /\ Len(key) >= Len(prefix)
    /\ SubSeq(key, 1, Len(prefix)) = prefix
\* the prefix without its closing underscore
UserPrefixOpen(user_id) == <<"user_">> \o Digits(user_id)
\* f"user_{user_id}_": the prefix clear_cache_for_user removes
UserPrefix(user_id) == <<"user_">> \o Digits(user_id) \o <<"_">>
\* generate_cache_key(user_id, goal_id, request_data), the request carrying
\* none of the four hashed parameters
generate_cache_key(user_id, goal_id) ==
    UserPrefix(user_id) \o <<"goal_">> \o Digits(goal_id) \o <<"_", "hash">>

\* _cleanup_expired_cache(current_time) on the cache c
cleanup_expired_cache(c, current_time) ==
    [k \in {x \in DOMAIN c : ~(current_time - c[x].timestamp > CACHE_TTL_SECONDS)} |-> c[k]]

\* the cache is consulted whatever the configuration says
UseCacheIgnoringConfig(user) == user # 0
\* the wrapper consults the cache: ENABLE_PLAN_CACHE is 'true' and
\* current_user.is_authenticated
UseCache(user) == cacheEnabled /\ user # 0

\* an entry of the given age is served when the TTL is inclusive
CacheHitInclusive(age) == age <= CACHE_TTL_SECONDS
\* "if age < cache_ttl": an entry of the given age is served
CacheHit(age) == age < CACHE_TTL_SECONDS

\* variant: the response is stored whatever its status
CacheableAnyStatus(status) == TRUE
\* "if status_code == 200 and hasattr(response_data, 'get_json')": the
\* handler's response is stored
Cacheable(status) == status = 200

\* the wrapper of cache_plan_response around generate_plan; user = 0 is an
\* anonymous current_user. planOut.lookup names the branch the wrapper took.
cache_plan_response(user, g) ==
    LET cache_key == generate_cache_key(user, g)
        now == clock
        computed == generate_plan(user, g) @@ [source |-> "handler"]
        found == cache_key \in DOMAIN cache
    IN  /\ UNCHANGED <<predictionEnabled, today, rowLocking, subjWeight, units, snapshots, idemLog, pc, req,
                       loc, sess, resp, sent, persisted, retOut, clock, cacheEnabled, dicts>>
        /\ IF ~UseCache(user)
           THEN planOut' = computed @@ [lookup |-> "bypass"] /\ cache' = cache
           ELSE IF found /\ CacheHit(now - cache[cache_key].timestamp)
           THEN LET age == now - cache[cache_key].timestamp
                    cached_response == [cache_hit |-> TRUE, cache_age_seconds |-> age]
                                        @@ cache[cache_key].response
                IN  /\ planOut' = [source |-> "cache", lookup |-> "hit"] @@ cached_response
                    /\ cache' = [cache EXCEPT ![cache_key].response = cached_response]
           ELSE LET evicted == [k \in DOMAIN cache \ {cache_key} |-> cache[k]]
                IN  /\ planOut' = computed @@ [lookup |-> IF found THEN "expired" ELSE "miss"]
                    /\ cache' = IF Cacheable(computed.status)
                                THEN cleanup_expired_cache(
                                        (cache_key :> [timestamp |-> now,
                                                       response |-> generate_plan(user, g)])
                                        @@ evicted, now)
                                ELSE evicted

\* the plan endpoint for a logged-in user
GeneratePlan(user, g) == cache_plan_response(user, g)

\* clear_cache_for_user(user_id)
clear_cache_for_user(user_id) ==
    /\ cache' = [k \in {x \in DOMAIN cache : ~StartsWith(x, UserPrefix(user_id))} |-> cache[k]]
    /\ UNCHANGED <<predictionEnabled, today, rowLocking, subjWeight, units, snapshots, idemLog, pc, req,
                   loc, sess, resp, sent, persisted, retOut, planOut, clock, cacheEnabled, dicts>>

\* clear_all_cache()
clear_all_cache ==
    /\ cache' = <<>>
    /\ UNCHANGED <<predictionEnabled, today, rowLocking, subjWeight, units, snapshots, idemLog, pc, req,
                   loc, sess, resp, sent, persisted, retOut, planOut, clock, cacheEnabled, dicts>>

\* time passes
ClockSteps == {150}
AdvanceClock(dt) ==
    /\ clock + dt <= MaxClock
    /\ clock' = clock + dt
    /\ UNCHANGED <<predictionEnabled, today, rowLocking, subjWeight, units, snapshots, idemLog, pc, req,
                   loc, sess, resp, sent, persisted, retOut, planOut, cache, cacheEnabled, dicts>>

\* get_status
GetStatus(user, g) ==
    /\ UNCHANGED cachevars
    /\ planOut' =
          IF g = 0 THEN [status |-> 400, op |-> "status"]
          ELSE IF ~GoalOwned(g, user) THEN [status |-> 404, op |-> "status"]
          ELSE IF TasksOfGoal(units, g) = {} THEN [status |-> 400, op |-> "status"]
          ELSE [status |-> 200, op |-> "status", goal_id |-> g,
                stat |-> GoalStatus(units, g, today)]
    /\ UNCHANGED <<today, rowLocking, subjWeight, units, snapshots, idemLog, pc, req,
                   loc, sess, resp, sent, persisted, retOut>>

\* --------------------------------------------- routes.py: feature flags
\* str.lower() on the values the flag takes in the model
Lower(v) == IF v = "ON" THEN "on" ELSE IF v = "True" THEN "true" ELSE v
\* is_prediction_enabled()
is_prediction_enabled ==
    Lower(predictionEnabled) \in {"true", "preview", "preview_ui", "1", "yes"}
\* is_write_enabled()
is_write_enabled == Lower(predictionEnabled) \in {"on", "true", "1"}

\* a guard answers a write request of slot p without calling the handler
GuardReject(p, data, status, cause) ==
    /\ UNCHANGED cachevars
    /\ pc[p] = "idle"
    /\ EndRequest(p, Resp(status, ErrBody(cause), data.key, cause))
    /\ persisted' = [persisted EXCEPT ![p] = FALSE]
    /\ UNCHANGED <<today, rowLocking, subjWeight, units, snapshots, idemLog, sent,
                   retOut, planOut>>

\* POST /apply-plan by a logged-in user: prediction_required, write_required,
\* then the handler
ApplyPlanEndpoint(p, data) ==
    IF ~is_prediction_enabled THEN GuardReject(p, data, 404, "prediction_disabled")
    ELSE IF ~is_write_enabled THEN GuardReject(p, data, 403, "write_disabled")
    ELSE ApplyBegin(p, data)

\* POST /quiz by a logged-in user
QuizEndpoint(p, data) ==
    IF ~is_prediction_enabled THEN GuardReject(p, data, 404, "prediction_disabled")
    ELSE IF ~is_write_enabled THEN GuardReject(p, data, 403, "write_disabled")
    ELSE QuizUpdate(p, data) \/ QuizFail(p, data)

\* a guard answers a request to a read-only endpoint
GuardRejectRead(op) ==
    /\ UNCHANGED cachevars
    /\ planOut' = [status |-> 404, op |-> op]
    /\ UNCHANGED <<today, rowLocking, subjWeight, units, snapshots, idemLog, pc, req,
                   loc, sess, resp, sent, persisted, retOut>>

\* POST /plan by a logged-in user: prediction_required, then the cache wrapper
PlanEndpoint(user, g) ==
    IF ~is_prediction_enabled THEN GuardRejectRead("plan") ELSE GeneratePlan(user, g)

\* GET /status by a logged-in user
StatusEndpoint(user, g) ==
    IF ~is_prediction_enabled THEN GuardRejectRead("status") ELSE GetStatus(user, g)

\* ------------------------------------------------------------ initial data
\* Goal 1 of user 1 has subjects 1 and 2, goal 2 of user 10 has subject 3,
\* goal 3 of user 1 has subject 4 (without units unless a specification adds
\* one).
\* Subject 1 holds tasks 1-3 (user-authored unless d3) and the virtual task 4,
\* subject 2 only the virtual task 5, subject 3 the virtual task 6.
InitUnits(w12, w3, d3, m1, stage1, ret4) ==
    (1 :> TaskRow(1, 1, 0 - 1, Some(w12), m1, Some(0), stage1, FALSE, None, None))
 @@ (2 :> TaskRow(1, 1, 0 - 2, Some(w12), 20, None, 0, FALSE, None, None))
 @@ (3 :> TaskRow(1, 1, 0 - 3, Some(w3), 20, None, 0, d3, None, None))
 @@ (4 :> TaskRow(1, 1, 0 - 4, Some(1000), 40, Some(0 - 3), 0, TRUE, ret4, None))
 @@ (5 :> TaskRow(1, 2, 0 - 5, Some(1000), 20, None, 0, TRUE, None, None))
 @@ (6 :> TaskRow(10, 3, 0 - 6, Some(1000), 20, None, 0, TRUE, None, None))

InitRest ==
    /\ today = 0
    /\ snapshots = <<>>
    /\ idemLog = <<>>
    /\ pc = [p \in Procs |-> "idle"]
    /\ req = [p \in Procs |-> NoReq]
    /\ loc = [p \in Procs |-> NoLoc]
    /\ sess = [p \in Procs |-> EmptySession]
    /\ resp = [p \in Procs |-> NoResp]
    /\ sent = <<>>
    /\ persisted = [p \in Procs |-> FALSE]
    /\ retOut = [goal |-> 0]
    /\ planOut = [status |-> 0]
    /\ cache = <<>>
    /\ clock = 0
    /\ dicts = <<>>

\* ------------------------------------------------------------- requests
LearnLine(id) == [task_id |-> Some(id), mode |-> "learn", alloc_hours |-> 200,
                  subject_id |-> None, topic_id |-> None]
ReviseLine(id) == [task_id |-> Some(id), mode |-> "revise", alloc_hours |-> 700,
                   subject_id |-> None, topic_id |-> None]
VirtualLine(s, t) == [task_id |-> None, mode |-> "learn", alloc_hours |-> 200,
                      subject_id |-> Some(s), topic_id |-> Some(t)]
ZeroLine(id) == [task_id |-> Some(id), mode |-> "learn", alloc_hours |-> 0,
                 subject_id |-> None, topic_id |-> None]

\* a virtual-task line with negative hours
NegativeVirtualLine(s, t) == [task_id |-> None, mode |-> "learn", alloc_hours |-> 0 - 100,
                              subject_id |-> Some(s), topic_id |-> Some(t)]
\* a line naming neither a task nor a subject and topic
OrphanLine == [task_id |-> None, mode |-> "learn", alloc_hours |-> 200,
               subject_id |-> None, topic_id |-> None]

Plans == {<<>>, <<LearnLine(1)>>, <<ReviseLine(1)>>, <<ZeroLine(2)>>,
          <<LearnLine(1), OrphanLine>>, <<NegativeVirtualLine(1, 1), ZeroLine(1)>>,
          <<VirtualLine(1, 1)>>, <<ReviseLine(1), ReviseLine(1)>>,
          <<VirtualLine(1, 1), VirtualLine(1, 1)>>}

ApplyReq(user, k, g, tasks, missing) ==
    [op |-> "apply", user |-> user, key |-> k, goal_id |-> g, tasks |-> tasks,
     missing |-> missing]
ApplyRequests ==
    {ApplyReq(1, "k1", 1, tasks, "none") : tasks \in Plans}
    \cup {ApplyReq(1, "k2", 1, <<ReviseLine(1)>>, "none"),
          ApplyReq(1, "k1", 2, <<>>, "none"), ApplyReq(1, "k1", 1, <<>>, "goal"),
          ApplyReq(1, "k1", 1, <<>>, "key"), ApplyReq(1, "k1", 1, <<>>, "tasks")}

QuizReq(user, k, id, mcq, mains, total, missing) ==
    [op |-> "quiz", user |-> user, key |-> k, task_id |-> id, mcq_percent |-> mcq,
     mains_score |-> mains, total_questions |-> total, missing |-> missing]
QuizScores == {<<100, 0, 2>>, <<0, 50, 2>>, <<0, 0, 0 - 3>>}
QuizRequests ==
    {QuizReq(1, "k1", 1, q[1], q[2], q[3], "none") : q \in QuizScores}
    \cup {QuizReq(1, "k1", 6, 50, 0, DEFAULT_QUESTIONS, "none"),
          QuizReq(10, "k1", 6, 50, 0, DEFAULT_QUESTIONS, "none"),
          QuizReq(1, "k1", 1, 150, 0, DEFAULT_QUESTIONS, "none"),
          QuizReq(1, "k1", 1, 50, 150, DEFAULT_QUESTIONS, "none"),
          QuizReq(1, "k1", 1, 50, 0, DEFAULT_QUESTIONS, "mcq_percent")}

\* two clients revising unit 1 at the same time
ConcRequests == {ApplyReq(1, k, 1, <<ReviseLine(1)>>, "none") : k \in Keys}

\* ------------------------------------------------------- specifications
\* One client: requests are handled one after the other.
Init ==
    /\ InitRest
    /\ predictionEnabled = "true"
    /\ cacheEnabled = TRUE
    /\ rowLocking = FALSE
    /\ subjWeight = [s \in Subjects |-> Some(1000)]
    /\ \E w3 \in {315, 316} : units = InitUnits(317, w3, FALSE, 0, 3, None)

Next ==
    \/ \E data \in ApplyRequests : ApplyBegin(1, data)
    \/ ApplyLine(1)
    \/ ApplyFlush(1)
    \/ ApplyRetire(1)
    \/ ApplyCommit(1)
    \/ ApplyFail(1)
    \/ \E data \in QuizRequests : QuizUpdate(1, data)
    \/ \E data \in QuizRequests : QuizFail(1, data)
    \/ Tick

Spec == Init /\ [][Next]_vars

\* Two clients at once; the database may or may not honour FOR UPDATE.
InitConc ==
    /\ InitRest
    /\ predictionEnabled = "true"
    /\ cacheEnabled = TRUE
    /\ rowLocking \in BOOLEAN
    /\ subjWeight = [s \in Subjects |-> Some(1000)]
    /\ \E w3 \in {315, 316} : units = InitUnits(317, w3, FALSE, 0, 0, None)

NextConc ==
    \/ \E p \in Procs, data \in ConcRequests : ApplyBegin(p, data)
    \/ \E p \in Procs : ApplyLine(p)
    \/ \E p \in Procs : ApplyFlush(p)
    \/ \E p \in Procs : ApplyRetire(p)
    \/ \E p \in Procs : ApplyCommit(p)
    \/ \E p \in Procs : ApplyFail(p)

SpecConc == InitConc /\ [][NextConc]_vars

\* The retirement service and the read-only endpoints over varied subjects.
SubjectWeights == {None, Some(0), Some(1000)}
InitRetire ==
    /\ InitRest
    /\ predictionEnabled = "true"
    /\ cacheEnabled = FALSE
    /\ rowLocking = FALSE
    /\ \E sw1 \in SubjectWeights :
          subjWeight = [s \in Subjects |-> IF s = 1 THEN sw1 ELSE Some(1000)]
    /\ \E w12 \in {317, 500}, w3 \in {0, 315, 316}, d3 \in BOOLEAN :
          units = InitUnits(w12, w3, d3, 50, 0, None)

NextRetire ==
    \/ \E g \in Goals : CheckRetirement(g)
    \/ \E id \in DOMAIN units : ReactivateVirtualTask(id)
    \/ \E user \in Users, g \in {0} \cup Goals : GeneratePlan(user, g)
    \/ \E user \in Users, g \in {0} \cup Goals : GetStatus(user, g)
    \/ Tick

SpecRetire == InitRetire /\ [][NextRetire]_vars

\* Two clients whose plans list units 1 and 2 in opposite order, on a
\* database with row locks; every request that has begun keeps running.
LiveRequest(p) ==
    IF p = 1 THEN ApplyReq(1, "k1", 1, <<ReviseLine(1), ReviseLine(2)>>, "none")
    ELSE ApplyReq(1, "k2", 1, <<ReviseLine(2), ReviseLine(1)>>, "none")

InitLive ==
    /\ InitRest
    /\ predictionEnabled = "true"
    /\ cacheEnabled = FALSE
    /\ rowLocking = TRUE
    /\ subjWeight = [s \in Subjects |-> Some(1000)]
    /\ units = InitUnits(317, 316, FALSE, 0, 0, None)

NextLive ==
    \/ \E p \in Procs : ApplyBegin(p, LiveRequest(p))
    \/ \E p \in Procs : ApplyLine(p)
    \/ \E p \in Procs : LockWaitAbort(p)
    \/ \E p \in Procs : ApplyFlush(p)
    \/ \E p \in Procs : ApplyRetire(p)
    \/ \E p \in Procs : ApplyCommit(p)
    \/ \E p \in Procs : ApplyFail(p)

\* a handler thread that can run its next statement runs it, and a query
\* waiting for a row lock is either granted the lock or ended by the database
FairLive ==
    \A p \in Procs :
        /\ WF_vars(ApplyLine(p) \/ LockWaitAbort(p))
        /\ WF_vars(ApplyFlush(p))
        /\ WF_vars(ApplyRetire(p))
        /\ WF_vars(ApplyCommit(p))

SpecLive == InitLive /\ [][NextLive]_vars /\ FairLive

\* The plan endpoint behind its response cache, over passing time.
InitCache ==
    /\ InitRest
    /\ predictionEnabled = "true"
    /\ cacheEnabled \in BOOLEAN
    /\ rowLocking = FALSE
    /\ subjWeight = [s \in Subjects |-> Some(1000)]
    /\ units = InitUnits(317, 316, FALSE, 50, 0, None)

\* the callers of the plan endpoint: each owner for their goal, an anonymous
\* caller, a caller naming another user's goal, a request without goal_id
PlanCallers == {<<1, 1>>, <<10, 2>>, <<0, 1>>, <<1, 2>>, <<10, 0>>}

NextCache ==
    \/ \E c \in PlanCallers : cache_plan_response(c[1], c[2])
    \/ \E user \in Users : clear_cache_for_user(user)
    \/ clear_all_cache
    \/ \E dt \in ClockSteps : AdvanceClock(dt)
    \/ CheckRetirement(1)

SpecCache == InitCache /\ [][NextCache]_vars

\* The simulator called directly on a list of task dicts the caller keeps,
\* and through the plan endpoint.
DailyHours == {0, 600}
SplitNew == {0, 60}
ExamDates == {None, Some(2)}

\* the caller builds a fresh list of dicts from the rows of goal g
LoadTasks(g) ==
    /\ dicts' = BuildTaskDicts(units, g)
    /\ UNCHANGED <<predictionEnabled, today, rowLocking, subjWeight, units, snapshots, idemLog, pc, req, loc,
                   sess, resp, sent, persisted, retOut, planOut, cache, clock, cacheEnabled>>

\* simulate_daily_plan on the list the caller holds
SimulateDailyPlan(daily_hours, split_new) ==
    LET r == simulate_daily_plan(dicts, daily_hours, split_new, today)
    IN  /\ DOMAIN dicts # {}
        /\ dicts' = r.tasks
        /\ planOut' = [status |-> 200, op |-> "simulate"] @@ PlanResult(r)
        /\ UNCHANGED <<predictionEnabled, today, rowLocking, subjWeight, units, snapshots, idemLog, pc, req,
                       loc, sess, resp, sent, persisted, retOut, cache, clock, cacheEnabled>>

\* compute_goal_status on the list the caller holds
ComputeGoalStatus(exam_date, daily_hours, split_new) ==
    LET r == compute_goal_status(dicts, exam_date, daily_hours, split_new, today)
    IN  /\ DOMAIN dicts # {}
        /\ dicts' = r.tasks
        /\ planOut' = [status |-> 200, op |-> "goal_status", stat |-> r.status]
        /\ UNCHANGED <<predictionEnabled, today, rowLocking, subjWeight, units, snapshots, idemLog, pc, req,
                       loc, sess, resp, sent, persisted, retOut, cache, clock, cacheEnabled>>

InitPlan ==
    /\ InitRest
    /\ predictionEnabled = "true"
    /\ cacheEnabled = FALSE
    /\ rowLocking = FALSE
    /\ subjWeight = [s \in Subjects |-> Some(1000)]
    /\ \E m1 \in {50, 95} : units = InitUnits(317, 316, FALSE, m1, 0, None)

NextPlan ==
    \/ \E g \in Goals : LoadTasks(g)
    \/ \E h \in DailyHours, sp \in SplitNew : SimulateDailyPlan(h, sp)
    \/ \E e \in ExamDates, h \in DailyHours, sp \in SplitNew : ComputeGoalStatus(e, h, sp)
    \/ \E g \in Goals : GeneratePlan(GoalUser(g), g)
    \/ Tick

SpecPlan == InitPlan /\ [][NextPlan]_vars

\* A goal with more units than a plan lists: twelve units of goal 1, all of
\* them studied at least three days ago except unit 11 (never studied) and
\* unit 12 (never studied, mastery exactly 0.9).
SelectShifts == 0 .. 5
SelectUnits(k) ==
    [id \in 1 .. 12 |->
        TaskRow(1, 1, 0 - id, Some(100 + 10 * ((id * 7) % 12)),
                IF id = 12 THEN 90 ELSE 35 + 5 * ((id * 5 + k) % 12),
                IF id >= 11 THEN None ELSE Some(0 - 3 - (id % 4)),
                id % 5, FALSE, None, None)]

InitSelect ==
    /\ InitRest
    /\ predictionEnabled = "true"
    /\ cacheEnabled = FALSE
    /\ rowLocking = FALSE
    /\ subjWeight = [s \in Subjects |-> Some(1000)]
    /\ \E k \in SelectShifts : units = SelectUnits(k)

NextSelect ==
    \/ LoadTasks(1)
    \/ \E h \in DailyHours, sp \in SplitNew : SimulateDailyPlan(h, sp)
    \/ GeneratePlan(1, 1)
    \/ \E e \in ExamDates : ComputeGoalStatus(e, DAILY_HOURS_DEFAULT, SPLIT_NEW_DEFAULT)
    \/ Tick

SpecSelect == InitSelect /\ [][NextSelect]_vars

\* The endpoints behind their feature-flag guards, for the values the
\* deployment notes and the guards' messages name.
FlagValues == {"false", "on", "ON", "true", "preview", "1"}
FlagRequests == {ApplyReq(1, "k1", 1, <<LearnLine(1)>>, "none"),
                 ApplyReq(1, "k2", 1, <<>>, "none")}
FlagQuizzes == {QuizReq(1, "k1", 1, 100, 0, 2, "none"),
                QuizReq(1, "k2", 2, 50, 0, DEFAULT_QUESTIONS, "none")}

InitFlag ==
    /\ InitRest
    /\ predictionEnabled \in FlagValues
    /\ cacheEnabled = TRUE
    /\ rowLocking = FALSE
    /\ subjWeight = [s \in Subjects |-> Some(1000)]
    /\ units = InitUnits(317, 316, FALSE, 0, 0, None)

NextFlag ==
    \/ \E data \in FlagRequests : ApplyPlanEndpoint(1, data)
    \/ ApplyLine(1)
    \/ ApplyFlush(1)
    \/ ApplyRetire(1)
    \/ ApplyCommit(1)
    \/ ApplyFail(1)
    \/ \E data \in FlagQuizzes : QuizEndpoint(1, data)
    \/ PlanEndpoint(1, 1)
    \/ StatusEndpoint(1, 1)

SpecFlag == InitFlag /\ [][NextFlag]_vars

\* Plans naming units outside the goal of the request: unit 6 of user 10,
\* unit 7 of user 1's other goal 3, topics of other goals.
OwnPlans == {<<LearnLine(7)>>, <<LearnLine(6), LearnLine(1)>>,
             <<VirtualLine(4, 4)>>, <<VirtualLine(3, 3), VirtualLine(1, 1)>>}
OwnRequests == {ApplyReq(1, "k1", 1, tasks, "none") : tasks \in OwnPlans}

InitOwn ==
    /\ InitRest
    /\ predictionEnabled = "true"
    /\ cacheEnabled = FALSE
    /\ rowLocking = FALSE
    /\ subjWeight = [s \in Subjects |-> Some(1000)]
    /\ \E w3 \in {315, 316} :
          units = InitUnits(317, w3, FALSE, 0, 0, None)
                    @@ (7 :> TaskRow(1, 4, 0 - 7, Some(1000), 20, None, 0, FALSE, None, None))

NextOwn ==
    \/ \E data \in OwnRequests : ApplyBegin(1, data)
    \/ ApplyLine(1)
    \/ ApplyFlush(1)
    \/ ApplyRetire(1)
    \/ ApplyCommit(1)
    \/ ApplyFail(1)
    \/ Tick

SpecOwn == InitOwn /\ [][NextOwn]_vars

C2_Begun(p) == pc[p] = "idle" /\ (resp'[p] # resp[p] \/ pc'[p] # "idle")
C2_BegunKey(p) == IF pc'[p] = "idle" THEN resp'[p].key ELSE req'[p].key
C2_LoggedKeyStep(p) ==
    \/ C2_Begun(p) /\ KeyLogged(C2_BegunKey(p))
    \/ pc[p] # "idle" /\ loc[p].key_logged /\ (pc'[p] # pc[p] \/ loc'[p] # loc[p])
C4_Serial ==
    LET u0 == InitUnits(317, 316, FALSE, 0, 0, None)[1]
        u1 == ApplyLineToTask(u0, ReviseLine(1), 1, 0, 0)
        u2 == ApplyLineToTask(u1, ReviseLine(1), 1, 0, 0)
    IN  u2
C7_LineApplied(p) ==
    /\ pc[p] = "lines" /\ pc'[p] = "lines"
    /\ loc'[p].updated_count = loc[p].updated_count + 1
C7_LineEffect(p) ==
    LET line == req[p].tasks[loc[p].idx]
        id == loc'[p].task_ids_updated[Len(loc'[p].task_ids_updated)]
        old == IF id \in DOMAIN DbView(p) THEN Obj(p, id).spaced_stage ELSE 0
        new == sess'[p].cur[id].spaced_stage
    IN  /\ line.mode = "revise" => new = (IF old + 1 < 4 THEN old + 1 ELSE 4)
        /\ line.mode = "learn" => new = old
C8_Real(s) == {id \in DOMAIN units : /\ units[id].topic_id = s
                                     /\ ~units[id].derived
                                     /\ IsNone(units[id].retired_at)}
C8_Covered(s) == SumOver([id \in C8_Real(s) |-> OrElse(units[id].concept_weight, 0)],
                         C8_Real(s))
C8_Checked(s) == retOut.goal # 0 /\ SubjectGoal(s) = retOut.goal
C9_Post(g) ==
    /\ DOMAIN units' = DOMAIN units
    /\ \A id \in DOMAIN units :
          LET s == units[id].topic_id
              eligible == SubjectGoal(s) = g /\ should_retire_virtual_tasks(units, subjWeight, s)
          IN  IF eligible /\ units[id].derived
              THEN ~IsNone(units'[id].retired_at)
              ELSE units'[id].retired_at = units[id].retired_at
C9_Frame == [][\A g \in Goals : CheckRetirement(g) => C9_Post(g)]_vars
\* the check of goal 1 retired the virtual unit 4 and left unit 6 of goal 2
C9_Witness ==
    /\ retOut.goal = 1 /\ 1 \in DOMAIN retOut.log
    /\ units[4].retired_at = Some(today)
    /\ IsNone(units[6].retired_at)

\* ------------------------------------------------------------------ C10
\* C10: a unit with retiredAt set appears in no generated plan and counts
\* in no figure of the goal status.
C10_Active == [id \in {x \in DOMAIN units : IsNone(units[x].retired_at)} |-> units[id]]
C10_PlanOK ==
    planOut'.status = 200
    => \A id \in planOut'.new_tasks \cup planOut'.revision_tasks :
          IsNone(units[id].retired_at)
C10_StatusOK ==
    planOut'.status = 200 => planOut'.stat = GoalStatus(C10_Active, planOut'.goal_id, today)
C10_RetiredExcluded ==
    [][\A user \in Users, g \in Goals :
          /\ GeneratePlan(user, g) => C10_PlanOK
          /\ GetStatus(user, g) => C10_StatusOK]_vars

\* ------------------------------------------------------------------ C11
\* C11: the retirement check of a goal run a second time, with no other
\* operation in between (whatever time has passed), retires no further
\* unit, changes no retiredAt already set and reports an empty result.
C11_SecondRun(g, now) == auto_retire_check(units', subjWeight', GoalSubjects(g), now)
C11_Idempotent ==
    [][\A g \in Goals :
          CheckRetirement(g)
          => \A now \in today'..MaxDay :
                /\ C11_SecondRun(g, now).rows = units'
                /\ C11_SecondRun(g, now).log = <<>>]_vars
\* a check of goal 1 ran on an eligible subject whose virtual unit an
\* earlier check had retired, and reported nothing
C11_Witness ==
    /\ retOut.goal = 1 /\ 1 \in retOut.eligible /\ retOut.log = <<>>
    /\ ~IsNone(units[4].retired_at)

\* C12: a plan request is answered from the cache only if an entry with the
\* same key was stored strictly less than CACHE_TTL_SECONDS earlier; an entry
\* whose age is at least the TTL is not served, and a lookup that finds one
\* removes it: after the request the key is absent or holds the response
\* stored by this very request.
C12_Key(user, g) == generate_cache_key(user, g)
C12_Age(user, g) == clock - cache[C12_Key(user, g)].timestamp
C12_Lookup(user, g) ==
    /\ planOut'.source = "cache"
        => /\ C12_Key(user, g) \in DOMAIN cache
           /\ C12_Age(user, g) < CACHE_TTL_SECONDS
           /\ cache'[C12_Key(user, g)].timestamp = cache[C12_Key(user, g)].timestamp
    /\ (cacheEnabled /\ user # 0 /\ C12_Key(user, g) \in DOMAIN cache
           /\ C12_Age(user, g) >= CACHE_TTL_SECONDS)
        => /\ planOut'.source = "handler"
           /\ \/ C12_Key(user, g) \notin DOMAIN cache'
              \/ /\ cache'[C12_Key(user, g)].timestamp = clock
                 /\ cache'[C12_Key(user, g)].response = generate_plan(user, g)
C12_TtlRespected ==
    [][\A c \in PlanCallers :
          cache_plan_response(c[1], c[2]) => C12_Lookup(c[1], c[2])]_vars
\* an entry stored at time 0 was found at age exactly the TTL, evicted and
\* replaced, while the other user's younger entry is still there
C12_Witness ==
    /\ planOut.status = 200 /\ "lookup" \in DOMAIN planOut /\ planOut.lookup = "expired" /\ planOut.source = "handler"
    /\ planOut.goal_id = 1
    /\ clock = CACHE_TTL_SECONDS
    /\ {generate_cache_key(1, 1), generate_cache_key(10, 2)} \subseteq DOMAIN cache
    /\ cache[generate_cache_key(1, 1)].timestamp = clock
    /\ cache[generate_cache_key(10, 2)].timestamp < clock

\* C13: when the cache is disabled by configuration or the caller is not
\* authenticated, a plan request leaves the cache contents unchanged and its
\* response is the one the handler computes from the current units.
C13_Bypassed(user, g) ==
    /\ cache' = cache
    /\ planOut'.source = "handler"
    /\ \A f \in DOMAIN generate_plan(user, g) : planOut'[f] = generate_plan(user, g)[f]
C13_Bypass ==
    [][\A c \in PlanCallers :
          (cache_plan_response(c[1], c[2]) /\ (~cacheEnabled \/ c[1] = 0))
          => C13_Bypassed(c[1], c[2])]_vars
\* the cache is disabled, units were retired since the previous call, and
\* the owner's request was answered by the handler with the new plan
C13_Witness ==
    /\ ~cacheEnabled
    /\ planOut.status = 200 /\ planOut.goal_id = 1 /\ planOut.source = "handler"
    /\ ~IsNone(units[4].retired_at)
    /\ cache = <<>>

\* C14: invalidation for user u removes every cache entry stored for u and
\* leaves every entry of every other user as it was, user 10 included when
\* user 1 is invalidated. The user an entry was stored for is the owner of
\* the goal of the stored plan.
C14_StoredFor(k) == GoalUser(cache[k].response.goal_id)
C14_Cleared(u) ==
    /\ DOMAIN cache' = {k \in DOMAIN cache : C14_StoredFor(k) # u}
    /\ \A k \in DOMAIN cache' : cache'[k] = cache[k]
C14_PerUserInvalidation ==
    [][\A u \in Users : clear_cache_for_user(u) => C14_Cleared(u)]_vars
\* the last plan request left an entry for user 1; that entry is gone while
\* the entry of user 10 is still cached
C14_Witness ==
    /\ planOut.status = 200 /\ planOut.goal_id = 1
    /\ "lookup" \in DOMAIN planOut /\ planOut.lookup \in {"miss", "hit", "expired"}
    /\ generate_cache_key(1, 1) \notin DOMAIN cache
    /\ generate_cache_key(10, 2) \in DOMAIN cache

\* C15: in every plan of the simulator, the hours reported on the entries of
\* new_tasks add up to hours_new and those on the entries of revision_tasks
\* to hours_revision (stated for the lists that are not empty, and up to one
\* hundredth of an hour of rounding per entry).
C15_Sum(entries) ==
    SumOver(Table([id \in DOMAIN entries |-> entries[id].allocated_hours]), DOMAIN entries)
C15_Near(a, b, n) == a - b <= n /\ b - a <= n
C15_HoursAddUp ==
    (planOut.status = 200 /\ planOut.op \in {"simulate", "plan"})
    => /\ planOut.new_tasks # {}
          => C15_Near(C15_Sum(planOut.new_entries), planOut.hours_new,
                      Cardinality(planOut.new_tasks))
       /\ planOut.revision_tasks # {}
          => C15_Near(C15_Sum(planOut.revision_entries), planOut.hours_revision,
                      Cardinality(planOut.revision_tasks))

\* C20: on every entry of new_tasks and revision_tasks of a plan, from the
\* simulator or from the plan endpoint, the derived flag is the derived flag
\* of the unit the entry was made from.
C20_Copied(entries) == \A id \in DOMAIN entries : entries[id].derived = units[id].derived
C20_DerivedCopied ==
    (planOut.status = 200 /\ planOut.op \in {"simulate", "plan"})
    => C20_Copied(planOut.new_entries) /\ C20_Copied(planOut.revision_entries)

\* C19: simulate_daily_plan and compute_goal_status return, on a list of
\* dicts that earlier calls (with any parameters, on any day) have processed,
\* what they return on a fresh copy of the same units with the same
\* parameters and the same today, and they leave every unit's mastery,
\* last_studied_at, spaced_stage and concept_weight as they were. The result
\* compared is the plan as the endpoint reports it and the status.
C19_Fresh(D) ==
    Table([id \in DOMAIN D |->
        [D[id] EXCEPT !.mastery_after_decay = None, !.days_since_last = None,
                      !.sph_priority = None, !.rpf_priority = None,
                      !.allocated_hours = None, !.mastery_after_study = None,
                      !.derived = None, !.mastery_current = None]])
C19_UnitsKept ==
    /\ units' = units
    /\ DOMAIN dicts' = DOMAIN dicts
    /\ \A id \in DOMAIN dicts :
          /\ dicts'[id].mastery = dicts[id].mastery
          /\ dicts'[id].last_studied_at = dicts[id].last_studied_at
          /\ dicts'[id].spaced_stage = dicts[id].spaced_stage
          /\ dicts'[id].concept_weight = dicts[id].concept_weight
C19_PlanAsFresh(h, sp) ==
    planOut' = [status |-> 200, op |-> "simulate"]
               @@ PlanResult(simulate_daily_plan(C19_Fresh(dicts), h, sp, today))
C19_StatusAsFresh(e, h, sp) ==
    planOut'.stat = compute_goal_status(C19_Fresh(dicts), e, h, sp, today).status
C19_PureOnInputs ==
    [][/\ \A h \in DailyHours, sp \in SplitNew :
             SimulateDailyPlan(h, sp) => (C19_PlanAsFresh(h, sp) /\ C19_UnitsKept)
       /\ \A e \in ExamDates, h \in DailyHours, sp \in SplitNew :
             ComputeGoalStatus(e, h, sp) => (C19_StatusAsFresh(e, h, sp) /\ C19_UnitsKept)]_vars
\* a plan simulated on a list that compute_goal_status had processed before,
\* with a unit in both lists, on a later day than the unit data were loaded
C19_Witness ==
    /\ planOut.status = 200 /\ planOut.op = "simulate"
    /\ planOut.new_tasks \cap planOut.revision_tasks # {}
    /\ \E id \in DOMAIN dicts :
          ~IsNone(dicts[id].mastery_current) /\ ~IsNone(dicts[id].allocated_hours)
    /\ today > 0

\* C16: an apply-plan request naming a goal that is absent or another user's,
\* and a quiz-update request naming a unit that is absent or another user's
\* (otherwise well-formed, with an unused idempotency key), is answered with
\* the not-found status 404, which is neither the invalid-input status 400
\* nor the generic failure status 500, and changes no unit, snapshot or
\* idempotency record.
C16_GoalNotFound(data) ==
    /\ data.missing = "none"
    /\ ~GoalOwned(data.goal_id, data.user)
C16_UnitNotFound(data) ==
    /\ data.missing = "none"
    /\ 0 <= data.mcq_percent /\ data.mcq_percent <= 100
    /\ 0 <= data.mains_score /\ data.mains_score <= 100
    /\ IsNone(ExistingLog(idemLog, IdempotencyKey(data)))
    /\ (data.task_id \notin DOMAIN units \/ units[data.task_id].user_id # data.user)
C16_NotFound(p) == resp'[p].status = 404 /\ UNCHANGED dbvars
C16_NotFoundDistinct ==
    [][\A p \in Procs :
          /\ \A data \in ApplyRequests :
                (ApplyBegin(p, data) /\ C16_GoalNotFound(data)) => C16_NotFound(p)
          /\ \A data \in QuizRequests :
                (QuizUpdate(p, data) /\ C16_UnitNotFound(data)) => C16_NotFound(p)]_vars

\* C17: an apply-plan request missing the idempotency key, the goal id or
\* the tasks array, an apply-plan request containing a malformed task line
\* (here: a line that names no unit), and a quiz-update request with
\* mcq_percent or mains_score outside 0..100 are each answered with status
\* 400, and no unit, snapshot or idempotency record is changed. A request cut
\* short by a storage failure is left out.
C17_Malformed(line) ==
    /\ OrElse(line.task_id, 0) = 0
    /\ (OrElse(line.subject_id, 0) = 0 \/ OrElse(line.topic_id, 0) = 0)
C17_HasMalformedLine(data) ==
    /\ data.op = "apply"
    /\ \E i \in 1..Len(data.tasks) : C17_Malformed(data.tasks[i])
C17_OutOfRange(data) ==
    \/ ~(0 <= data.mcq_percent /\ data.mcq_percent <= 100)
    \/ ~(0 <= data.mains_score /\ data.mains_score <= 100)
C17_Rejected(p) == pc'[p] = "idle" /\ resp'[p].status = 400
C21_Applied(p) ==
    /\ pc[p] = "lines" /\ pc'[p] = "lines"
    /\ loc'[p].updated_count = loc[p].updated_count + 1
    /\ OrElse(req[p].tasks[loc[p].idx].task_id, 0) # 0
C21_Engine(u, line, t) ==
    LET decayed == apply_decay(u.mastery, LAMBDA_FALLBACK, days_since(u.last_studied_at, t))
        t_est == OrElse(u.est_hours_per_unit, T_EST_FALLBACK)
    IN  IF line.mode = "learn"
        THEN learn_update(decayed, line.alloc_hours, t_est, ETA_APPLY)
        ELSE revise_update(decayed, line.alloc_hours, t_est, RHO_APPLY)
C22_Rows == IF planOut'.op = "plan"
            THEN [id \in TasksOfGoal(units, planOut'.goal_id) |-> units[id]]
            ELSE [id \in DOMAIN dicts |->
                    [mastery |-> dicts[id].mastery,
                     last_studied_at |-> dicts[id].last_studied_at,
                     concept_weight |-> Some(dicts[id].concept_weight),
                     spaced_stage |-> dicts[id].spaced_stage]]
C22_New(R) == {id \in DOMAIN R : MasteryCurrent(R[id], today) < 90}
C22_Rev(R) == {id \in DOMAIN R : /\ MasteryCurrent(R[id], today) > 30
                                 /\ days_since(R[id].last_studied_at, today) >= 3}
C22_Planned == planOut' # planOut /\ planOut'.status = 200
               /\ planOut'.op \in {"plan", "simulate"}
C22_TopSelected ==
    [][C22_Planned =>
        LET R == C22_Rows
        IN  /\ Cardinality(planOut'.new_tasks) <= 10
            /\ planOut'.new_tasks \subseteq C22_New(R)
            /\ \A x \in planOut'.new_tasks : \A y \in C22_New(R) \ planOut'.new_tasks :
                  SphScore(R[y], today) <= SphScore(R[x], today)
            /\ Cardinality(planOut'.revision_tasks) <= 8
            /\ planOut'.revision_tasks \subseteq C22_Rev(R)
            /\ \A x \in planOut'.revision_tasks :
                  \A y \in C22_Rev(R) \ planOut'.revision_tasks :
                     RpfScore(R[y], today) <= RpfScore(R[x], today)]_vars
\* a plan with ten new units and eight revision units, candidates of both
\* kinds left out
C22_Witness ==
    /\ planOut.status = 200 /\ planOut.op = "plan"
    /\ Cardinality(planOut.new_tasks) = 10
    /\ Cardinality(planOut.revision_tasks) = 8
    /\ Cardinality({id \in DOMAIN units : MasteryCurrent(units[id], today) < 90}) > 10
    /\ Cardinality({id \in DOMAIN units :
                       /\ MasteryCurrent(units[id], today) > 30
                       /\ days_since(units[id].last_studied_at, today) >= 3}) > 8


\* ------------------------------------------------------------------ C23
\* C23: a line applied to a unit that an earlier request already decayed on
\* the same plan date (last_decay_date is the plan date) starts from the
\* stored mastery, without further decay.
C23_LaterLine(p) ==
    /\ pc[p] = "lines" /\ pc'[p] = "lines"
    /\ loc'[p].updated_count = loc[p].updated_count + 1
    /\ OrElse(req[p].tasks[loc[p].idx].task_id, 0) # 0
    /\ Val(req[p].tasks[loc[p].idx].task_id) \notin DOMAIN sess[p].cur
    /\ units[Val(req[p].tasks[loc[p].idx].task_id)].last_decay_date = Some(loc[p].plan_date)
C24_SkippedLine(p) ==
    /\ pc[p] = "lines"
    /\ loc[p].idx <= Len(req[p].tasks)
    /\ req[p].tasks[loc[p].idx].alloc_hours <= 0
    /\ loc'[p] # loc[p]
    /\ ~(pc'[p] = "idle" /\ resp'[p].cause = "storage")
C25_Commits(p) == pc[p] = "commit" /\ pc'[p] = "idle" /\ resp'[p].cause = "applied"
C25_Lines(p, id) ==
    Cardinality({i \in DOMAIN loc[p].task_ids_updated : loc[p].task_ids_updated[i] = id})
C26_Answered(p) == pc[p] = "idle" /\ pc'[p] = "idle" /\ resp'[p] # resp[p]
C26_OnPassesGuards ==
    Lower(predictionEnabled) = "on"
    => \A p \in Procs :
          C26_Answered(p) => resp'[p].cause \notin {"prediction_disabled", "write_disabled"}
C26_OffAnswers404 ==
    Lower(predictionEnabled) = "false"
    => /\ \A p \in Procs : pc'[p] = "idle" /\ (C26_Answered(p) => resp'[p].status = 404)
       /\ planOut' # planOut => planOut'.status = 404
C26_PreviewReadOnly ==
    Lower(predictionEnabled) \in {"preview", "preview_ui"}
    => /\ \A p \in Procs : pc'[p] = "idle" /\ (C26_Answered(p) => resp'[p].status = 403)
       /\ UNCHANGED <<units, snapshots, idemLog>>
C26_FlagModes == [][C26_OnPassesGuards /\ C26_OffAnswers404 /\ C26_PreviewReadOnly]_vars


C28_Written(p) ==
    {id \in DOMAIN sess'[p].cur :
        id \notin DOMAIN sess[p].cur \/ sess'[p].cur[id] # sess[p].cur[id]}
C29_NotDecayed(D) ==
    \A id \in DOMAIN D :
        IsNone(D[id].last_studied_at)
        => /\ D[id].mastery_after_decay \in {None, Some(D[id].mastery)}
           /\ D[id].mastery_current \in {None, Some(D[id].mastery)}
C29_NotRevised ==
    (planOut' # planOut /\ planOut'.status = 200 /\ planOut'.op \in {"plan", "simulate"})
    => /\ planOut'.op = "plan"
          => \A id \in TasksOfGoal(units, planOut'.goal_id) :
                IsNone(units[id].last_studied_at)
                => /\ id \notin planOut'.revision_tasks
                   /\ id \in planOut'.new_tasks
                      => planOut'.new_entries[id].mastery_before = units[id].mastery
       /\ planOut'.op = "simulate"
          => \A id \in DOMAIN dicts :
                IsNone(dicts[id].last_studied_at) => id \notin planOut'.revision_tasks
C29_NeverStudied == [][C29_NotDecayed(dicts') /\ C29_NotRevised]_vars
\* the simulator has run, a day or more on, over a list holding the never
\* studied unit 11 with mastery above 0.3: it is due (its revision priority
\* got the boost), undecayed, and eight other units are listed for revision
C29_Witness ==
    /\ planOut.status = 200 /\ planOut.op = "simulate"
    /\ Cardinality(planOut.revision_tasks) = 8
    /\ today >= 1
    /\ 11 \in DOMAIN dicts
    /\ IsNone(dicts[11].last_studied_at) /\ dicts[11].mastery > 30
    /\ dicts[11].mastery_after_decay = Some(dicts[11].mastery)
    /\ ~IsNone(dicts[11].rpf_priority)


\* ------------------------------------------------------------------ C30
\* C30: the cache holds only responses the handler answered with status
\* 200, so a response served from the cache is never an error, and every
\* response served from the cache carries the cache-hit label.
C30_OnlySuccessCached ==
    /\ \A k \in DOMAIN cache : cache[k].response.status = 200
    /\ ("source" \in DOMAIN planOut /\ planOut.source = "cache")
       => /\ planOut.status = 200
          /\ "cache_hit" \in DOMAIN planOut /\ planOut.cache_hit = TRUE
\* user 1 asked for goal 2 (not theirs) with the cache in use: answered 404
\* by the handler, nothing stored under that key, while the cache holds
\* another plan
C30_Witness ==
    /\ planOut.status = 404 /\ "lookup" \in DOMAIN planOut /\ planOut.lookup = "miss"
    /\ generate_cache_key(1, 2) \notin DOMAIN cache
    /\ DOMAIN cache # {}

====
